---- MODULE Spec2Model ----
(***************************************************************************)
(* Owner resolution and project creation of the GitHub Projects V2 tools.  *)
(*                                                                         *)
(*   pkg/github/owner_resolution.go   resolveOwnerID                       *)
(*   isGraphQLNotFound                the error classifier                 *)
(*   CreateProject                    owner lookup, then create mutation   *)
(*                                                                         *)
(* One invocation runs at a time.  An action is the code that runs between *)
(* two blocking points of the invocation: the call of the operation up to  *)
(* its first network call, and the return of each network call up to the   *)
(* next network call or the return of the operation.                       *)
(***************************************************************************)
EXTENDS Integers, Sequences, FiniteSets, TLC

(***************************************************************************)
(* Bounds of the model.                                                    *)
(***************************************************************************)
\* number of distinct identifiers the remote service may hold per root
MaxIds == 1
\* number of distinct padding texts put before and after a classifier phrase
MaxPad == 2
\* number of entries of a remote result set (projects of an owner, items of a
\* project), and the largest page size asked for
MaxNodes == 2

(***************************************************************************)
(* Go values.  A pointer, an interface value and an error are tuples: the  *)
(* empty tuple is nil, a one-element tuple holds the value.                *)
(***************************************************************************)
Null == <<>>
Ref(obj) == <<obj>>
Deref(p) == p[1]

\* ghv4.ID is interface{}: nil, or a dynamic string value
NilID == <<>>
ID(s) == <<s>>

\* error: nil, errors.New(msg), or an error wrapping a cause (%w)
NilErr == <<>>
NewError(msg) == <<msg>>
ErrorMsg(err) == err[1]
Unwrap(err) == IF Len(err) = 2 THEN err[2] ELSE NilErr
\* fmt.Errorf(prefix + "%w", cause)
Errorf(prefix, cause) == <<prefix \o ErrorMsg(cause), cause>>

\* strings.Contains
Contains(s, substr) ==
    \E i \in 0..(Len(s) - Len(substr)) : SubSeq(s, i + 1, i + Len(substr)) = substr

(***************************************************************************)
(* The error classifier.                                                   *)
(***************************************************************************)
\* mutant: a cancelled call is classified as not found too
isGraphQLNotFound_Canceled(err) ==
    IF err = NilErr THEN FALSE
    ELSE LET msg == ErrorMsg(err) IN
         \/ Contains(msg, "could not resolve to a User")
         \/ Contains(msg, "could not resolve to an Organization")
         \/ Contains(msg, "non-200 OK status code: 400")
         \/ Contains(msg, "non-200 OK status code: 404")
         \/ Contains(msg, "context canceled")

isGraphQLNotFound_No400(err) ==
    IF err = NilErr THEN FALSE
    ELSE LET msg == ErrorMsg(err) IN
         \/ Contains(msg, "could not resolve to a User")
         \/ Contains(msg, "could not resolve to an Organization")
         \/ Contains(msg, "non-200 OK status code: 404")

isGraphQLNotFound(err) ==
    IF err = NilErr THEN FALSE
    ELSE LET msg == ErrorMsg(err) IN
         \/ Contains(msg, "could not resolve to a User")
         \/ Contains(msg, "could not resolve to an Organization")
         \/ Contains(msg, "non-200 OK status code: 400")
         \/ Contains(msg, "non-200 OK status code: 404")

(***************************************************************************)
(* Owner resolution: the code of resolveOwnerID after each of its lookups. *)
(* A lookup response is the error returned by client.Query and the object  *)
(* the call decoded into the query struct (nil when none was decoded).     *)
(***************************************************************************)
Return(id, err, orgNotFound) ==
    [ret |-> TRUE, id |-> id, err |-> err, orgNotFound |-> orgNotFound]
Continue(orgNotFound) ==
    [ret |-> FALSE, id |-> ID(""), err |-> NilErr, orgNotFound |-> orgNotFound]

\* mutant: an organization object does not end the resolution
OrgLookupStep_NoShortCircuit(resp) ==
    LET notFound == resp.err # NilErr /\ isGraphQLNotFound(resp.err) IN
    IF resp.err # NilErr /\ ~notFound
    THEN Return(ID(""), Errorf("organization lookup failed: ", resp.err), notFound)
    ELSE Continue(notFound)

\* mutant: a Fatal organization error is continued past like a NotFound one
OrgLookupStep_IgnoreFatal(resp) ==
    LET notFound == resp.err # NilErr /\ isGraphQLNotFound(resp.err) IN
    IF resp.obj # Null
    THEN Return(Deref(resp.obj).ID, NilErr, notFound)
    ELSE Continue(notFound)

\* owner_resolution.go lines 23-29: what follows the organization lookup
OrgLookupStep(resp) ==
    LET notFound == resp.err # NilErr /\ isGraphQLNotFound(resp.err) IN
    IF resp.err # NilErr /\ ~notFound
    THEN Return(ID(""), Errorf("organization lookup failed: ", resp.err), notFound)
    ELSE IF resp.obj # Null
    THEN Return(Deref(resp.obj).ID, NilErr, notFound)
    ELSE Continue(notFound)

\* mutant: the user object is not looked at
UserLookupStep_DropUser(orgNotFound, resp) ==
    LET notFound == resp.err # NilErr /\ isGraphQLNotFound(resp.err) IN
    IF resp.err # NilErr /\ ~notFound
    THEN Return(ID(""), Errorf("user lookup failed: ", resp.err), orgNotFound)
    ELSE Return(ID(""), NewError("owner not found"), orgNotFound)

\* mutant: the fallback after the two lookups reports success
UserLookupStep_FallbackOk(orgNotFound, resp) ==
    LET notFound == resp.err # NilErr /\ isGraphQLNotFound(resp.err) IN
    IF resp.err # NilErr /\ ~notFound
    THEN Return(ID(""), Errorf("user lookup failed: ", resp.err), orgNotFound)
    ELSE IF resp.obj # Null
    THEN Return(Deref(resp.obj).ID, NilErr, orgNotFound)
    ELSE IF orgNotFound /\ notFound
    THEN Return(ID(""), NewError("owner not found"), orgNotFound)
    ELSE Return(ID(""), NilErr, orgNotFound)

\* mutant: a Fatal user error is reported as a missing owner
UserLookupStep_FatalAsNotFound(orgNotFound, resp) ==
    IF resp.err = NilErr /\ resp.obj # Null
    THEN Return(Deref(resp.obj).ID, NilErr, orgNotFound)
    ELSE Return(ID(""), NewError("owner not found"), orgNotFound)

\* owner_resolution.go lines 36-46: what follows the user lookup
UserLookupStep(orgNotFound, resp) ==
    LET notFound == resp.err # NilErr /\ isGraphQLNotFound(resp.err) IN
    IF resp.err # NilErr /\ ~notFound
    THEN Return(ID(""), Errorf("user lookup failed: ", resp.err), orgNotFound)
    ELSE IF resp.obj # Null
    THEN Return(Deref(resp.obj).ID, NilErr, orgNotFound)
    ELSE IF orgNotFound /\ notFound
    THEN Return(ID(""), NewError("owner not found"), orgNotFound)
    ELSE Return(ID(""), NewError("owner not found"), orgNotFound)

\* resolveOwnerID as a function of the two lookup responses of the remote
resolveOwnerID(w) ==
    LET o == OrgLookupStep(w.org) IN
    IF o.ret THEN [id |-> o.id, err |-> o.err]
    ELSE LET u == UserLookupStep(o.orgNotFound, w.user) IN
         [id |-> u.id, err |-> u.err]

(***************************************************************************)
(* Result mapping of CreateProject.                                        *)
(***************************************************************************)
\* fmt.Sprint of a ghv4.ID: the string it holds, "<nil>" for a nil interface
Sprint(id) == IF id = NilID THEN "<nil>" ELSE id[1]

\* (*url.URL).String() of the URL a ghv4.URI embeds, which is not nil
URLString(u) == Deref(u).Scheme \o "://" \o Deref(u).Host \o Deref(u).Path

\* lines 453-459: the Project built from the mutation's ProjectV2
ProjectOf(p) ==
    [ID |-> Sprint(p.ID), Number |-> p.Number, Title |-> p.Title,
     URL |-> URLString(p.URL)]

\* mutant: the user root is preferred over the organization root
OwnerIDOf_PreferUser(q) ==
    IF q.User # Null THEN [found |-> TRUE, id |-> Deref(q.User).ID]
    ELSE IF q.Organization # Null
    THEN [found |-> TRUE, id |-> Deref(q.Organization).ID]
    ELSE [found |-> FALSE, id |-> NilID]

\* lines 418-425: the owner identifier picked from the owner query
OwnerIDOf(q) ==
    IF q.Organization # Null
    THEN [found |-> TRUE, id |-> Deref(q.Organization).ID]
    ELSE IF q.User # Null THEN [found |-> TRUE, id |-> Deref(q.User).ID]
    ELSE [found |-> FALSE, id |-> NilID]

\* lines 427-438: the mutation input
CreateProjectInputOf(ownerId, in) ==
    [OwnerID |-> ownerId, Title |-> in.Title,
     ShortDescription |-> IF in.Description # "" THEN in.Description ELSE ""]

(***************************************************************************)
(* The remote service, as seen through client.Query and client.Mutate.     *)
(***************************************************************************)
OrgIds == { ID("ORGID" \o ToString(i)) : i \in 1..MaxIds }
UserIds == { ID("USERID" \o ToString(i)) : i \in 1..MaxIds }

\* errors a lookup of the organization root may return
OrgErrs ==
    { NewError("non-200 OK status code: 404"),
      NewError("could not resolve to an Organization"),
      NewError("fatal org error"),
      NewError("context canceled") }

\* errors a lookup of the user root may return
UserErrs ==
    { NewError("non-200 OK status code: 404"),
      NewError("could not resolve to a User"),
      NewError("fatal user error"),
      NewError("context canceled") }

\* a lookup of one root either decodes what the remote holds for the login
\* (an object or null) and reports no error, or reports an error and decodes
\* no object
OrgResps ==
    { [err |-> NilErr, obj |-> o] : o \in {Null} \cup { Ref([ID |-> i]) : i \in OrgIds } }
    \cup { [err |-> e, obj |-> Null] : e \in OrgErrs }
UserResps ==
    { [err |-> NilErr, obj |-> o] : o \in {Null} \cup { Ref([ID |-> i]) : i \in UserIds } }
    \cup { [err |-> e, obj |-> Null] : e \in UserErrs }

\* the zero value of the mutation's ProjectV2 struct
ZeroProjectV2 == [ID |-> NilID, Number |-> 0, Title |-> "", URL |-> Null]

ExampleURL(i) ==
    Ref([Scheme |-> "http", Host |-> "example.com", Path |-> "/project" \o ToString(i)])

ProjectV2s ==
    { [ID |-> ID("proj" \o ToString(i)), Number |-> i, Title |-> "Project for Org",
       URL |-> ExampleURL(i)] : i \in 1..MaxIds }
    \cup { [ID |-> NilID, Number |-> 0, Title |-> "", URL |-> ExampleURL(0)],
           ZeroProjectV2 }

CreateResps ==
    { [err |-> NilErr, project |-> p] : p \in ProjectV2s }
    \cup { [err |-> NewError("mutation failed"), project |-> ZeroProjectV2] }

NoCreate == [err |-> NilErr, project |-> ZeroProjectV2]

\* the answer to one query that asks for both roots: both objects are
\* decoded, and the error is the first one the roots reported
OwnerQueryResponse(w) ==
    [err |-> IF w.org.err # NilErr THEN w.org.err ELSE w.user.err,
     Organization |-> w.org.obj,
     User |-> w.user.obj]

Logins == {"testowner"}

CreateProjectInputs ==
    [Owner : {"", "org-login"}, Title : {"", "Project for Org"},
     Description : {"", "desc"}]

Tokens == {"", "token"}

(***************************************************************************)
(* State.                                                                  *)
(***************************************************************************)
VARIABLES
    op,           \* the operation being invoked
    pc,           \* where the invocation stands: the call it is blocked in
    args,         \* the arguments of the invocation
    env,          \* the value of GITHUB_PERSONAL_ACCESS_TOKEN
    remote,       \* what the remote service answers to this invocation
    orgErr, orgNotFound, orgQ,      \* locals of resolveOwnerID
    userErr, userNotFound, userQ,
    ownerQ, ownerID, input, m,      \* locals of CreateProject
    trace,        \* network calls issued and returned, in order
    result,       \* what the operation returned
    cls,          \* the error handed to the classifier, and its verdict
    getenv,       \* how often the invocation read GITHUB_PERSONAL_ACCESS_TOKEN
    procs,        \* the invocations running concurrently, each with its frame
    tool          \* the tool handler serving a request

resolverLocals == <<orgErr, orgNotFound, orgQ, userErr, userNotFound, userQ>>
createLocals == <<ownerQ, ownerID, input, m>>
\* the variables of the other specifications
aux == <<cls, procs, tool>>
vars ==
    <<op, pc, args, env, remote, resolverLocals, createLocals, trace, result, getenv, aux>>

Call(kind, v) == [ev |-> "call", kind |-> kind, vars |-> v]
Ret(kind) == [ev |-> "ret", kind |-> kind]

NoResult == [val |-> <<>>, err |-> NilErr]
NoCase == [err |-> NilErr, expect |-> FALSE, res |-> "unset"]

ZeroOwnerQ == [Organization |-> Null, User |-> Null]
ZeroInput == [OwnerID |-> NilID, Title |-> "", ShortDescription |-> ""]

ZeroResolverLocals ==
    /\ orgErr' = NilErr /\ orgNotFound' = FALSE /\ orgQ' = Null
    /\ userErr' = NilErr /\ userNotFound' = FALSE /\ userQ' = Null

ZeroCreateLocals ==
    /\ ownerQ' = ZeroOwnerQ /\ ownerID' = NilID
    /\ input' = ZeroInput /\ m' = ZeroProjectV2

Idle ==
    /\ op = "none" /\ pc = "idle"
    /\ args = [owner |-> ""]
    /\ env = ""
    /\ remote = [org |-> [err |-> NilErr, obj |-> Null],
                 user |-> [err |-> NilErr, obj |-> Null],
                 create |-> NoCreate]
    /\ orgErr = NilErr /\ orgNotFound = FALSE /\ orgQ = Null
    /\ userErr = NilErr /\ userNotFound = FALSE /\ userQ = Null
    /\ ownerQ = ZeroOwnerQ /\ ownerID = NilID
    /\ input = ZeroInput /\ m = ZeroProjectV2
    /\ trace = <<>>
    /\ result = NoResult
    /\ getenv = 0

NoProcs == <<>>
\* no request is being served
NoTool ==
    [name |-> "none", pc |-> "idle", req |-> [factory |-> NilErr, missing |-> {}],
     next |-> 1, opt |-> 1, read |-> <<>>, invoked |-> 0, calls |-> 0,
     ret |-> "none", err |-> NilErr]

Init == Idle /\ cls = NoCase /\ procs = NoProcs /\ tool = NoTool

(***************************************************************************)
(* resolveOwnerID(ctx, client, owner)                                      *)
(***************************************************************************)
\* lines 17-22: the call, up to the organization lookup being issued
CallResolveOwnerID(owner, w) ==
    /\ pc = "idle"
    /\ op' = "resolveOwnerID" /\ pc' = "orgQuery"
    /\ args' = [owner |-> owner]
    /\ remote' = w
    /\ ZeroResolverLocals /\ ZeroCreateLocals
    /\ trace' = << Call("organization", [login |-> owner]) >>
    /\ result' = NoResult
    /\ UNCHANGED <<env, getenv, aux>>

\* lines 22-35: the organization lookup returns
OrgQueryReturn ==
    /\ op = "resolveOwnerID" /\ pc = "orgQuery"
    /\ LET resp == remote.org
           s == OrgLookupStep(resp) IN
       /\ orgErr' = resp.err
       /\ orgQ' = resp.obj
       /\ orgNotFound' = s.orgNotFound
       /\ IF s.ret
          THEN /\ pc' = "done"
               /\ result' = [val |-> s.id, err |-> s.err]
               /\ trace' = Append(trace, Ret("organization"))
          ELSE /\ pc' = "userQuery"
               /\ result' = result
               /\ trace' = trace \o << Ret("organization"),
                                       Call("user", [login |-> args.owner]) >>
    /\ UNCHANGED <<op, args, env, remote, userErr, userNotFound, userQ,
                   createLocals, getenv, aux>>

\* lines 35-47: the user lookup returns
UserQueryReturn ==
    /\ op = "resolveOwnerID" /\ pc = "userQuery"
    /\ LET resp == remote.user
           s == UserLookupStep(orgNotFound, resp) IN
       /\ userErr' = resp.err
       /\ userQ' = resp.obj
       /\ userNotFound' = (resp.err # NilErr /\ isGraphQLNotFound(resp.err))
       /\ pc' = "done"
       /\ result' = [val |-> s.id, err |-> s.err]
       /\ trace' = Append(trace, Ret("user"))
    /\ UNCHANGED <<op, args, env, remote, orgErr, orgNotFound, orgQ,
                   createLocals, getenv, aux>>

\* mutant: the token is read before the input is looked at
TokenReads_First(invalid, client) == IF client = Null THEN 1 ELSE 0

\* os.Getenv is reached past the validation, and only when client == nil
TokenReads(invalid, client) == IF invalid THEN 0 ELSE IF client = Null THEN 1 ELSE 0

(***************************************************************************)
(* CreateProject(ctx, in, client)                                          *)
(***************************************************************************)
\* lines 396-415: validation, client configuration, owner query issued
CallCreateProject(in, client, token, w) ==
    /\ pc = "idle"
    /\ op' = "CreateProject"
    /\ args' = [in |-> in, client |-> client]
    /\ env' = token
    /\ remote' = w
    /\ ZeroResolverLocals /\ ZeroCreateLocals
    /\ IF in.Owner = "" \/ in.Title = ""
       THEN /\ pc' = "done"
            /\ result' = [val |-> Null, err |-> NewError("owner and title are required")]
            /\ trace' = <<>>
       ELSE IF client = Null /\ token = ""
       THEN /\ pc' = "done"
            /\ result' = [val |-> Null,
                          err |-> NewError("GITHUB_PERSONAL_ACCESS_TOKEN not set")]
            /\ trace' = <<>>
       ELSE /\ pc' = "ownerQuery"
            /\ result' = NoResult
            /\ trace' = << Call("owner", [login |-> in.Owner]) >>
    /\ getenv' = TokenReads(in.Owner = "" \/ in.Title = "", client)
    /\ UNCHANGED aux

\* lines 415-450: the owner query returns, the create mutation is issued
OwnerQueryReturn ==
    /\ op = "CreateProject" /\ pc = "ownerQuery"
    /\ LET resp == OwnerQueryResponse(remote)
           o == OwnerIDOf(resp) IN
       /\ ownerQ' = [Organization |-> resp.Organization, User |-> resp.User]
       /\ IF resp.err # NilErr
          THEN /\ pc' = "done"
               /\ result' = [val |-> Null, err |-> Errorf("owner lookup failed: ", resp.err)]
               /\ trace' = Append(trace, Ret("owner"))
               /\ UNCHANGED <<ownerID, input>>
          ELSE IF ~o.found
          THEN /\ pc' = "done"
               /\ result' = [val |-> Null, err |-> NewError("owner not found")]
               /\ trace' = Append(trace, Ret("owner"))
               /\ UNCHANGED <<ownerID, input>>
          ELSE /\ pc' = "mutate"
               /\ ownerID' = o.id
               /\ input' = CreateProjectInputOf(o.id, args.in)
               /\ result' = result
               /\ trace' = trace \o << Ret("owner"),
                              Call("createProjectV2", CreateProjectInputOf(o.id, args.in)) >>
    /\ UNCHANGED <<op, args, env, remote, resolverLocals, m, getenv, aux>>

\* lines 450-460: the create mutation returns
MutateReturn ==
    /\ op = "CreateProject" /\ pc = "mutate"
    /\ LET resp == remote.create IN
       /\ trace' = Append(trace, Ret("createProjectV2"))
       /\ IF resp.err # NilErr
          THEN /\ pc' = "done"
               /\ m' = m
               /\ result' = [val |-> Null, err |-> Errorf("github graphql error: ", resp.err)]
          ELSE /\ m' = resp.project
               /\ IF resp.project.URL = Null
                  THEN /\ pc' = "panic"      \* p.URL.String() on a nil *url.URL
                       /\ result' = result
                  ELSE /\ pc' = "done"
                       /\ result' = [val |-> Ref(ProjectOf(resp.project)), err |-> NilErr]
    /\ UNCHANGED <<op, args, env, remote, resolverLocals, ownerQ, ownerID, input, getenv,
                   aux>>

(***************************************************************************)
(* Go slices: nil, or a slice holding a sequence of elements.              *)
(***************************************************************************)
NilSlice == <<>>
MakeSlice(elems) == <<elems>>
Elems(sl) == IF sl = NilSlice THEN <<>> ELSE sl[1]
\* append(sl, x): the result is never nil
AppendSlice(sl, x) == MakeSlice(Append(Elems(sl), x))

\* client == nil and no token in the environment: no client can be built
\* mutant: the token is asked for when a client was supplied
NoClient_Supplied(client, token) == client # Null /\ token = ""

NoClient(client, token) == client = Null /\ token = ""

Clients == {Null, Ref("client")}

\* the start of an invocation: arguments bound, locals at their zero values
Start(name, a, token, w) ==
    /\ pc = "idle"
    /\ op' = name
    /\ args' = a
    /\ env' = token
    /\ remote' = w
    /\ ZeroResolverLocals /\ ZeroCreateLocals
    /\ UNCHANGED aux

\* return nil, errors.New(msg) before any network call
Reject(msg) ==
    /\ pc' = "done"
    /\ result' = [val |-> Null, err |-> NewError(msg)]
    /\ trace' = <<>>

\* the first network call is issued
Issue(at, kind, v) ==
    /\ pc' = at
    /\ result' = NoResult
    /\ trace' = << Call(kind, v) >>

\* what changes when the only network call of an operation returns
Unchanged1 ==
    UNCHANGED <<op, args, env, remote, resolverLocals, createLocals, getenv, aux>>

(***************************************************************************)
(* The remote's result sets and the pages it cuts from them.               *)
(***************************************************************************)
SeqsUpTo(S, n) == UNION { [1..k -> S] : k \in 0..n }


\* errors a query or mutation may return
CallErrs == { NewError("non-200 OK status code: 500"), NewError("context canceled") }

ProjectNode(i) ==
    [ID |-> ID(ToString(i)), Number |-> i, Title |-> "Proj" \o ToString(i),
     URL |-> Ref([Scheme |-> "http", Host |-> "example.com",
                  Path |-> "/p" \o ToString(i)])]

\* projects the remote may hold; the last one was decoded without id and url
ProjectNodes == { ProjectNode(i) : i \in 1..MaxNodes } \cup { ZeroProjectV2 }

ZeroPageInfo == [EndCursor |-> "", HasNextPage |-> FALSE]
ZeroPage == [Nodes |-> <<>>, PageInfo |-> ZeroPageInfo]

\* the pageInfo a response may carry: any cursor and any flag, for every
\* result set; the decoded struct admits them all
PageInfos == [EndCursor : {"", "abc"}, HasNextPage : BOOLEAN]

\* an answer of the remote: the first k entries of its result set, the cut
\* being the remote's, and a pageInfo
PageOf(set, k, info) == [Nodes |-> SubSeq(set, 1, k), PageInfo |-> info]

\* the remote of a paginated query: its result set and the decoded answer,
\* which the query's variables do not determine
PageWorlds(nodes) ==
    UNION { { [err |-> NilErr, set |-> set, q |-> PageOf(set, k, info)] :
                  k \in 0..Len(set), info \in PageInfos } :
            set \in SeqsUpTo(nodes, MaxNodes) }
    \cup { [err |-> e, set |-> <<>>, q |-> ZeroPage] : e \in CallErrs }

(***************************************************************************)
(* ListOrganizationProjects(ctx, in, client)                               *)
(* ListUserProjects(ctx, in, client)                                       *)
(***************************************************************************)
ListOrganizationProjectsInputs ==
    [Organization : {"", "test-org"}, First : {0, 2}, After : {"", "abc"}]
ListUserProjectsInputs ==
    [User : {"", "test-user"}, First : {0, 2}, After : {"", "abc"}]

\* mutant: the page starts with a nil slice
EmptyProjects_Nil == NilSlice

\* Projects: []Project{}
EmptyProjects == MakeSlice(<<>>)

RECURSIVE AppendProjects(_, _)

\* mutant: the projects are appended in the reverse of the nodes' order
AppendProjects_Reversed(out, nodes) ==
    MakeSlice(Elems(out)
                \o [i \in 1..Len(nodes) |-> ProjectOf(nodes[Len(nodes) + 1 - i])])

\* the loop over the nodes: one Project appended per node
AppendProjects(out, nodes) ==
    IF nodes = <<>> THEN out
    ELSE AppendProjects(AppendSlice(out, ProjectOf(Head(nodes))), Tail(nodes))

\* n.URL.String() panics for a node whose URL was not decoded
SomeNilURL(nodes) == \E i \in 1..Len(nodes) : nodes[i].URL = Null

\* the output built from the decoded projectsV2 connection
ListOutputOf(conn) ==
    [Projects |-> AppendProjects(EmptyProjects, conn.Nodes),
     EndCursor |-> conn.PageInfo.EndCursor,
     HasNextPage |-> conn.PageInfo.HasNextPage]

\* lines 135-170
CallListOrganizationProjects(in, client, token, w) ==
    /\ Start("ListOrganizationProjects", [in |-> in, client |-> client], token, w)
    /\ getenv' = TokenReads(in.Organization = "", client)
    /\ IF in.Organization = "" THEN Reject("organization is required")
       ELSE IF NoClient(client, token) THEN Reject("GITHUB_PERSONAL_ACCESS_TOKEN not set")
       ELSE Issue("listOrgQuery", "organization.projectsV2",
                  [org |-> in.Organization, first |-> in.First, after |-> in.After])

\* lines 170-189
ListOrganizationProjectsReturn ==
    /\ op = "ListOrganizationProjects" /\ pc = "listOrgQuery"
    /\ trace' = Append(trace, Ret("organization.projectsV2"))
    /\ IF remote.err # NilErr
       THEN /\ pc' = "done"
            /\ result' = [val |-> Null, err |-> Errorf("github graphql error: ", remote.err)]
       ELSE IF SomeNilURL(remote.q.Nodes)
       THEN pc' = "panic" /\ result' = result
       ELSE /\ pc' = "done"
            /\ result' = [val |-> Ref(ListOutputOf(remote.q)), err |-> NilErr]
    /\ Unchanged1

\* lines 205-240
CallListUserProjects(in, client, token, w) ==
    /\ Start("ListUserProjects", [in |-> in, client |-> client], token, w)
    /\ getenv' = TokenReads(in.User = "", client)
    /\ IF in.User = "" THEN Reject("user is required")
       ELSE IF NoClient(client, token) THEN Reject("GITHUB_PERSONAL_ACCESS_TOKEN not set")
       ELSE Issue("listUserQuery", "user.projectsV2",
                  [login |-> in.User, first |-> in.First, after |-> in.After])

\* lines 240-259
ListUserProjectsReturn ==
    /\ op = "ListUserProjects" /\ pc = "listUserQuery"
    /\ trace' = Append(trace, Ret("user.projectsV2"))
    /\ IF remote.err # NilErr
       THEN /\ pc' = "done"
            /\ result' = [val |-> Null, err |-> Errorf("github graphql error: ", remote.err)]
       ELSE IF SomeNilURL(remote.q.Nodes)
       THEN pc' = "panic" /\ result' = result
       ELSE /\ pc' = "done"
            /\ result' = [val |-> Ref(ListOutputOf(remote.q)), err |-> NilErr]
    /\ Unchanged1

(***************************************************************************)
(* GetProject(ctx, in, client)                                             *)
(***************************************************************************)
GetProjectInputs == [Owner : {"", "test-owner"}, Number : {0, 123}]

\* mutant: the input is refused only when both fields are missing
GetProjectInvalid_Both(in) == in.Owner = "" /\ in.Number = 0

\* line 265
GetProjectInvalid(in) == in.Owner = "" \/ in.Number = 0

\* what one root of the query may decode: no owner, an owner without the
\* project, an owner with the project
RootsOf(project) ==
    { Null, Ref([ProjectV2 |-> Null]), Ref([ProjectV2 |-> Ref(project)]) }

OrgProject ==
    [ID |-> ID("proj123"), Number |-> 123, Title |-> "Test Project", URL |-> ExampleURL(123)]
UserProject ==
    [ID |-> ID("userproj123"), Number |-> 123, Title |-> "User Project",
     URL |-> ExampleURL(321)]

\* the query decodes both roots, and may report an error beside them
GetProjectWorlds ==
    [err : {NilErr, NewError("could not resolve to an Organization")} \cup CallErrs,
     Organization : RootsOf(OrgProject) \cup { Ref([ProjectV2 |-> Ref(ZeroProjectV2)]) },
     User : RootsOf(UserProject)]

\* lines 305-317: the project picked from the two roots, nil when none
SelectProject(q) ==
    IF q.Organization # Null /\ Deref(q.Organization).ProjectV2 # Null
    THEN Deref(q.Organization).ProjectV2
    ELSE IF q.User # Null /\ Deref(q.User).ProjectV2 # Null
    THEN Deref(q.User).ProjectV2
    ELSE Null

\* lines 264-300
CallGetProject(in, client, token, w) ==
    /\ Start("GetProject", [in |-> in, client |-> client], token, w)
    /\ getenv' = TokenReads(GetProjectInvalid(in), client)
    /\ IF GetProjectInvalid(in) THEN Reject("owner and number are required")
       ELSE IF NoClient(client, token) THEN Reject("GITHUB_PERSONAL_ACCESS_TOKEN not set")
       ELSE Issue("getProjectQuery", "projectV2",
                  [owner |-> in.Owner, number |-> in.Number])

\* lines 300-325
GetProjectReturn ==
    /\ op = "GetProject" /\ pc = "getProjectQuery"
    /\ trace' = Append(trace, Ret("projectV2"))
    /\ LET p == SelectProject(remote) IN
       IF remote.err # NilErr
       THEN /\ pc' = "done"
            /\ result' = [val |-> Null, err |-> Errorf("github graphql error: ", remote.err)]
       ELSE IF p = Null
       THEN /\ pc' = "done"
            /\ result' = [val |-> Null, err |-> NewError("project not found")]
       ELSE IF Deref(p).URL = Null
       THEN pc' = "panic" /\ result' = result
       ELSE /\ pc' = "done"
            /\ result' = [val |-> Ref(ProjectOf(Deref(p))), err |-> NilErr]
    /\ Unchanged1

(***************************************************************************)
(* GetProjectItems(ctx, in, client)                                        *)
(***************************************************************************)
GetProjectItemsInputs ==
    [ProjectID : {"", "proj123"}, First : {0, 2}, After : {"", "abc"}]

\* the zero value of the Content struct: what an absent content decodes to
ZeroContent == [Typename |-> "", ID |-> NilID, Title |-> "", State |-> "", URL |-> Null]

IssueContent ==
    [Typename |-> "Issue", ID |-> ID("c2"), Title |-> "Issue2", State |-> "OPEN",
     URL |-> Ref([Scheme |-> "http", Host |-> "example.com", Path |-> "/i2"])]
\* a content answered without state
PlainContent ==
    [Typename |-> "Issue", ID |-> ID("c1"), Title |-> "Issue1", State |-> "",
     URL |-> Ref([Scheme |-> "http", Host |-> "example.com", Path |-> "/i1"])]
\* a content of a type that has none of the fields asked for
DraftContent ==
    [Typename |-> "DraftIssue", ID |-> ID("d1"), Title |-> "Draft1", State |-> "",
     URL |-> Null]

ItemNodes ==
    { [ID |-> ID("item1"), Content |-> PlainContent],
      [ID |-> ID("item2"), Content |-> IssueContent],
      [ID |-> ID("item3"), Content |-> ZeroContent],
      [ID |-> ID("item4"), Content |-> DraftContent] }

\* lines 382-388: the ProjectItem of a node; State is not assigned
ItemOf(n) ==
    [ID |-> Sprint(n.ID),
     ContentID |-> Sprint(n.Content.ID),
     ContentType |-> n.Content.Typename,
     Title |-> n.Content.Title,
     State |-> "",
     URL |-> URLString(n.Content.URL)]

\* Items: []ProjectItem{}
EmptyItems == MakeSlice(<<>>)

\* the loop over the nodes: one ProjectItem appended per node
RECURSIVE AppendItems(_, _)
AppendItems(out, nodes) ==
    IF nodes = <<>> THEN out
    ELSE AppendItems(AppendSlice(out, ItemOf(Head(nodes))), Tail(nodes))

\* n.Content.URL.String() panics for a content whose URL was not decoded
SomeNilContentURL(nodes) == \E i \in 1..Len(nodes) : nodes[i].Content.URL = Null

ItemsOutputOf(conn) ==
    [Items |-> AppendItems(EmptyItems, conn.Nodes),
     EndCursor |-> conn.PageInfo.EndCursor,
     HasNextPage |-> conn.PageInfo.HasNextPage]

\* lines 330-371
CallGetProjectItems(in, client, token, w) ==
    /\ Start("GetProjectItems", [in |-> in, client |-> client], token, w)
    /\ getenv' = TokenReads(in.ProjectID = "", client)
    /\ IF in.ProjectID = "" THEN Reject("projectID is required")
       ELSE IF NoClient(client, token) THEN Reject("GITHUB_PERSONAL_ACCESS_TOKEN not set")
       ELSE Issue("itemsQuery", "node.items",
                  [id |-> in.ProjectID, first |-> in.First, after |-> in.After])

\* lines 371-391
GetProjectItemsReturn ==
    /\ op = "GetProjectItems" /\ pc = "itemsQuery"
    /\ trace' = Append(trace, Ret("node.items"))
    /\ IF remote.err # NilErr
       THEN /\ pc' = "done"
            /\ result' = [val |-> Null, err |-> Errorf("github graphql error: ", remote.err)]
       ELSE IF SomeNilContentURL(remote.q.Nodes)
       THEN pc' = "panic" /\ result' = result
       ELSE /\ pc' = "done"
            /\ result' = [val |-> Ref(ItemsOutputOf(remote.q)), err |-> NilErr]
    /\ Unchanged1

(***************************************************************************)
(* AddProjectItem(ctx, in, client)                                         *)
(***************************************************************************)
AddProjectItemInputs == [ProjectID : {"", "proj123"}, ContentID : {"", "c1"}]

AddProjectItemWorlds ==
    { [err |-> NilErr, item |-> [ID |-> i, Content |-> c]] :
          i \in {ID("item1"), NilID},
          c \in {Null, Ref(IssueContent), Ref(PlainContent), Ref(DraftContent)} }
    \cup { [err |-> e, item |-> [ID |-> NilID, Content |-> Null]] : e \in CallErrs }

\* mutant: an absent content is read as a content with zero fields
AddedItemOf_NoNilCheck(it) ==
    LET c == IF it.Content = Null THEN ZeroContent ELSE Deref(it.Content) IN
    [ID |-> Sprint(it.ID),
     ContentID |-> Sprint(c.ID),
     ContentType |-> c.Typename,
     Title |-> c.Title,
     State |-> c.State,
     URL |-> IF c.URL = Null THEN "" ELSE URLString(c.URL)]

\* lines 505-514: the item of the mutation response
AddedItemOf(it) ==
    IF it.Content = Null
    THEN [ID |-> Sprint(it.ID), ContentID |-> "", ContentType |-> "", Title |-> "",
          State |-> "", URL |-> ""]
    ELSE [ID |-> Sprint(it.ID),
          ContentID |-> Sprint(Deref(it.Content).ID),
          ContentType |-> Deref(it.Content).Typename,
          Title |-> Deref(it.Content).Title,
          State |-> Deref(it.Content).State,
          URL |-> URLString(Deref(it.Content).URL)]

\* mutant: a failed mutation is issued a second time
AddProjectItemReturn_Retry ==
    /\ op = "AddProjectItem" /\ pc = "addMutate"
    /\ IF remote.err # NilErr /\ Len(trace) = 1
       THEN /\ pc' = "addMutate"
            /\ result' = result
            /\ trace' = trace \o << Ret("addProjectV2ItemById"), trace[1] >>
       ELSE /\ trace' = Append(trace, Ret("addProjectV2ItemById"))
            /\ IF remote.err # NilErr
               THEN /\ pc' = "done"
                    /\ result' = [val |-> Null,
                                  err |-> Errorf("github graphql error: ", remote.err)]
               ELSE IF remote.item.Content # Null /\ Deref(remote.item.Content).URL = Null
               THEN pc' = "panic" /\ result' = result
               ELSE /\ pc' = "done"
                    /\ result' = [val |-> Ref([Item |-> AddedItemOf(remote.item)]),
                                  err |-> NilErr]
    /\ Unchanged1

\* lines 465-501
CallAddProjectItem(in, client, token, w) ==
    /\ Start("AddProjectItem", [in |-> in, client |-> client], token, w)
    /\ getenv' = TokenReads(in.ProjectID = "" \/ in.ContentID = "", client)
    /\ IF in.ProjectID = "" \/ in.ContentID = ""
       THEN Reject("projectID and contentID are required")
       ELSE IF NoClient(client, token) THEN Reject("GITHUB_PERSONAL_ACCESS_TOKEN not set")
       ELSE Issue("addMutate", "addProjectV2ItemById",
                  [ProjectID |-> ID(in.ProjectID), ContentID |-> ID(in.ContentID)])

\* lines 501-516
AddProjectItemReturn ==
    /\ op = "AddProjectItem" /\ pc = "addMutate"
    /\ trace' = Append(trace, Ret("addProjectV2ItemById"))
    /\ IF remote.err # NilErr
       THEN /\ pc' = "done"
            /\ result' = [val |-> Null, err |-> Errorf("github graphql error: ", remote.err)]
       ELSE IF remote.item.Content # Null /\ Deref(remote.item.Content).URL = Null
       THEN pc' = "panic" /\ result' = result
       ELSE /\ pc' = "done"
            /\ result' = [val |-> Ref([Item |-> AddedItemOf(remote.item)]), err |-> NilErr]
    /\ Unchanged1

(***************************************************************************)
(* UpdateProjectItemField(ctx, in, client)                                 *)
(***************************************************************************)
UpdateProjectItemFieldInputs ==
    [ProjectID : {"", "proj123"}, ItemID : {"", "item1"}, FieldID : {"", "field1"},
     Value : {"", "Done"}]

UpdateProjectItemFieldWorlds ==
    { [err |-> NilErr, ID |-> i] : i \in {ID("item1"), NilID} }
    \cup { [err |-> e, ID |-> NilID] : e \in CallErrs }

\* mutant: the project identifier is required as well
UpdateInvalid_NeedsProject(in) ==
    in.ProjectID = "" \/ in.ItemID = "" \/ in.FieldID = "" \/ in.Value = ""

\* line 522
UpdateInvalid(in) == in.ItemID = "" \/ in.FieldID = "" \/ in.Value = ""

\* line 558: only the identifier is set
UpdatedItemOf(id) ==
    [ID |-> Sprint(id), ContentID |-> "", ContentType |-> "", Title |-> "",
     State |-> "", URL |-> ""]

\* lines 521-554
CallUpdateProjectItemField(in, client, token, w) ==
    /\ Start("UpdateProjectItemField", [in |-> in, client |-> client], token, w)
    /\ getenv' = TokenReads(UpdateInvalid(in), client)
    /\ IF UpdateInvalid(in) THEN Reject("itemID, fieldID, and value are required")
       ELSE IF NoClient(client, token) THEN Reject("GITHUB_PERSONAL_ACCESS_TOKEN not set")
       ELSE Issue("updateMutate", "updateProjectV2ItemFieldValue",
                  [ProjectID |-> ID(in.ProjectID), ItemID |-> ID(in.ItemID),
                   FieldID |-> ID(in.FieldID), Value |-> in.Value])

\* lines 554-560
UpdateProjectItemFieldReturn ==
    /\ op = "UpdateProjectItemField" /\ pc = "updateMutate"
    /\ trace' = Append(trace, Ret("updateProjectV2ItemFieldValue"))
    /\ pc' = "done"
    /\ IF remote.err # NilErr
       THEN result' = [val |-> Null, err |-> Errorf("github graphql error: ", remote.err)]
       ELSE result' = [val |-> Ref([Item |-> UpdatedItemOf(remote.ID)]), err |-> NilErr]
    /\ Unchanged1

(***************************************************************************)
(* isGraphQLNotFound(err), applied to errors built around known texts.     *)
(***************************************************************************)
NotFoundPhrases ==
    { "could not resolve to a User",
      "could not resolve to an Organization",
      "non-200 OK status code: 400",
      "non-200 OK status code: 404" }

\* texts that hold none of the phrases
OtherTexts ==
    { "", "some other error", "fatal org error", "context canceled",
      "owner not found",
      "Could not resolve to a User",
      "could not resolve to a user",
      "could not resolve to an organization",
      "could not resolve to a Repository",
      "could not resolve to a",
      "non-200 OK status code: 401",
      "non-200 OK status code: 500",
      "non-200 OK status code: 40",
      "non-200 OK status code 404",
      "status code: 404" }

\* texts put before and after: none completes or starts a phrase
PadText(i) ==
    CASE i = 0 -> ""
      [] i = 1 -> "organization lookup failed: "
      [] i = 2 -> " with the login of 'testowner'."
      [] OTHER -> " pad" \o ToString(i) \o " "
Pads == { PadText(i) : i \in 0..MaxPad }

ClassifierCases ==
    { [err |-> NilErr, expect |-> FALSE, res |-> "unset"] }
    \cup { [err |-> NewError(pre \o core \o post),
            expect |-> (core \in NotFoundPhrases),
            res |-> "unset"] :
           pre \in Pads, core \in NotFoundPhrases \cup OtherTexts, post \in Pads }

InitClassifier == Idle /\ cls \in ClassifierCases /\ procs = NoProcs /\ tool = NoTool

Classify ==
    /\ cls.res = "unset"
    /\ cls' = [cls EXCEPT !.res = IF isGraphQLNotFound(cls.err) THEN "true" ELSE "false"]
    /\ UNCHANGED <<op, pc, args, env, remote, resolverLocals, createLocals, trace, result,
                   getenv, procs, tool>>

NextClassifier == Classify

SpecClassifier == InitClassifier /\ [][NextClassifier]_vars

Worlds ==
    [org : OrgResps, user : UserResps, create : {NoCreate}]
CreateWorlds ==
    [org : OrgResps, user : UserResps, create : CreateResps]

Next ==
    \/ pc = "idle" /\ \E owner \in Logins, w \in Worlds : CallResolveOwnerID(owner, w)
    \/ OrgQueryReturn
    \/ UserQueryReturn
    \/ pc = "idle" /\ \E in \in CreateProjectInputs, client \in {Null, Ref("client")},
          token \in Tokens, w \in CreateWorlds :
          CallCreateProject(in, client, token, w)
    \/ OwnerQueryReturn
    \/ MutateReturn
    \/ pc = "idle" /\ \E in \in ListOrganizationProjectsInputs, client \in Clients, token \in Tokens :
          \E w \in PageWorlds(ProjectNodes) :
             CallListOrganizationProjects(in, client, token, w)
    \/ ListOrganizationProjectsReturn
    \/ pc = "idle" /\ \E in \in ListUserProjectsInputs, client \in Clients, token \in Tokens :
          \E w \in PageWorlds(ProjectNodes) :
             CallListUserProjects(in, client, token, w)
    \/ ListUserProjectsReturn
    \/ pc = "idle" /\ \E in \in GetProjectInputs, client \in Clients, token \in Tokens,
          w \in GetProjectWorlds :
             CallGetProject(in, client, token, w)
    \/ GetProjectReturn
    \/ pc = "idle" /\ \E in \in GetProjectItemsInputs, client \in Clients, token \in Tokens :
          \E w \in PageWorlds(ItemNodes) :
             CallGetProjectItems(in, client, token, w)
    \/ GetProjectItemsReturn
    \/ pc = "idle" /\ \E in \in AddProjectItemInputs, client \in Clients, token \in Tokens,
          w \in AddProjectItemWorlds :
             CallAddProjectItem(in, client, token, w)
    \/ AddProjectItemReturn
    \/ pc = "idle" /\ \E in \in UpdateProjectItemFieldInputs, client \in Clients, token \in Tokens,
          w \in UpdateProjectItemFieldWorlds :
             CallUpdateProjectItemField(in, client, token, w)
    \/ UpdateProjectItemFieldReturn

Spec == Init /\ [][Next]_vars

(***************************************************************************)
(* The tool handlers: getClient, the required parameters in the order the  *)
(* handler reads them, the optional ones, then the business operation.     *)
(***************************************************************************)
ToolNames ==
    {"list_organization_projects", "list_user_projects", "get_project",
     "get_project_items", "create_project", "add_project_item",
     "update_project_item_field"}

\* the parameters read with the error returned to the caller, in order
RequiredParams(name) ==
    CASE name = "list_organization_projects" -> << "organization" >>
      [] name = "list_user_projects" -> << "user" >>
      [] name = "get_project" -> << "owner", "number" >>
      [] name = "get_project_items" -> << "project_id" >>
      [] name = "create_project" -> << "owner", "title" >>
      [] name = "add_project_item" -> << "project_id", "content_id" >>
      [] name = "update_project_item_field" ->
            << "project_id", "item_id", "field_id", "value" >>

\* the parameters read with the error dropped (first, _ := ...)
OptionalParams(name) ==
    CASE name \in {"list_organization_projects", "list_user_projects",
                   "get_project_items"} -> << "first", "after" >>
      [] name = "create_project" -> << "description" >>
      [] OTHER -> << >>

ParamNames(name) ==
    { RequiredParams(name)[i] : i \in 1..Len(RequiredParams(name)) }
      \cup { OptionalParams(name)[i] : i \in 1..Len(OptionalParams(name)) }

\* the error requiredParam returns for a parameter it cannot read
ParamError(p) == NewError("missing required parameter: " \o p)
FactoryErrs == { NilErr, NewError("failed to get GitHub GQL client") }
\* what the business operation does once invoked: calls issued, error or not
OpOutcomes == [calls : 0..2, err : {NilErr, NewError("github graphql error: failed")}]

\* a request: whether getClient fails, and the parameters that cannot be read
ToolRequests(name) == [factory : FactoryErrs, missing : SUBSET ParamNames(name)]

Serving == <<op, pc, args, env, remote, resolverLocals, createLocals, trace, result,
             getenv, cls, procs>>

ToolDone(e) == tool' = [tool EXCEPT !.pc = "done", !.ret = "error", !.err = e]

\* the handler is entered and calls getClient
ToolCall(name, req) ==
    /\ tool.pc = "idle"
    /\ tool' = [NoTool EXCEPT !.name = name, !.pc = "getClient", !.req = req]
    /\ UNCHANGED Serving

\* client, err := getClient(ctx); if err != nil { return nil, err }
GetClientReturn ==
    /\ tool.pc = "getClient"
    /\ IF tool.req.factory # NilErr
       THEN ToolDone(tool.req.factory)
       ELSE tool' = [tool EXCEPT !.pc = "params"]
    /\ UNCHANGED Serving

\* mutant: the error of a required parameter is dropped
ReadRequiredParam_Dropped ==
    /\ tool.pc = "params" /\ tool.next <= Len(RequiredParams(tool.name))
    /\ tool' = [tool EXCEPT !.next = @ + 1,
                            !.read = Append(@, RequiredParams(tool.name)[tool.next])]
    /\ UNCHANGED Serving

\* v, err := requiredParam(req, p); if err != nil { return nil, err }
ReadRequiredParam ==
    /\ tool.pc = "params" /\ tool.next <= Len(RequiredParams(tool.name))
    /\ LET p == RequiredParams(tool.name)[tool.next] IN
       IF p \in tool.req.missing
       THEN ToolDone(ParamError(p))
       ELSE tool' = [tool EXCEPT !.next = @ + 1, !.read = Append(@, p)]
    /\ UNCHANGED Serving

\* v, _ := requiredParam(req, p) // optional
ReadOptionalParam ==
    /\ tool.pc = "params" /\ tool.next > Len(RequiredParams(tool.name))
    /\ tool.opt <= Len(OptionalParams(tool.name))
    /\ tool' = [tool EXCEPT !.opt = @ + 1]
    /\ UNCHANGED Serving

\* out, err := Operation(ctx, input, client)
InvokeOperation ==
    /\ tool.pc = "params" /\ tool.next > Len(RequiredParams(tool.name))
    /\ tool.opt > Len(OptionalParams(tool.name))
    /\ tool' = [tool EXCEPT !.pc = "operation", !.invoked = @ + 1]
    /\ UNCHANGED Serving

\* the operation returns; its error is returned, its result is marshalled
OperationReturn(o) ==
    /\ tool.pc = "operation"
    /\ tool' = [tool EXCEPT !.pc = "done", !.calls = o.calls, !.err = o.err,
                            !.ret = IF o.err # NilErr THEN "error" ELSE "result"]
    /\ UNCHANGED Serving

InitTools == Idle /\ cls = NoCase /\ procs = NoProcs /\ tool = NoTool

NextTools ==
    \/ \E name \in ToolNames : \E req \in ToolRequests(name) : ToolCall(name, req)
    \/ GetClientReturn
    \/ ReadRequiredParam
    \/ ReadOptionalParam
    \/ InvokeOperation
    \/ \E o \in OpOutcomes : OperationReturn(o)

SpecTools == InitTools /\ [][NextTools]_vars

(***************************************************************************)
(* Concurrent invocations of resolveOwnerID and CreateProject on one       *)
(* client.  The client holds no state; what an invocation holds are the    *)
(* local variables of its call, its frame.  A network call returns by      *)
(* decoding the response into the frame's variables; the code after the    *)
(* call then reads them.  Other invocations may run in between.            *)
(***************************************************************************)
Procs == {1, 2}
ConcLogins == {"org-login", "user-login"}

ConcProject(i) ==
    [ID |-> ID("proj" \o ToString(i)), Number |-> i, Title |-> "Project",
     URL |-> ExampleURL(i)]

\* the answers of the remote to the lookups of a login
ConcLookups ==
    { [org |-> [err |-> NilErr, obj |-> Ref([ID |-> ID("ORGID1")])],
       user |-> [err |-> NewError("could not resolve to a User"), obj |-> Null]],
      [org |-> [err |-> NilErr, obj |-> Ref([ID |-> ID("ORGID1")])],
       user |-> [err |-> NilErr, obj |-> Null]],
      [org |-> [err |-> NewError("could not resolve to an Organization"), obj |-> Null],
       user |-> [err |-> NilErr, obj |-> Ref([ID |-> ID("USERID1")])]],
      [org |-> [err |-> NilErr, obj |-> Null],
       user |-> [err |-> NilErr, obj |-> Ref([ID |-> ID("USERID1")])]],
      [org |-> [err |-> NilErr, obj |-> Null],
       user |-> [err |-> NilErr, obj |-> Null]],
      [org |-> [err |-> NewError("context canceled"), obj |-> Null],
       user |-> [err |-> NilErr, obj |-> Ref([ID |-> ID("USERID1")])]] }

ConcCreates ==
    { [err |-> NilErr, project |-> ConcProject(1)],
      [err |-> NilErr, project |-> ConcProject(2)],
      [err |-> NewError("mutation failed"), project |-> ZeroProjectV2] }

\* what the remote holds for a login: its answers to the lookups and to the
\* creation of a project for the login
ConcWorlds ==
    { [org |-> l.org, user |-> l.user, create |-> c] :
          l \in ConcLookups, c \in ConcCreates }

\* the local variables of one call, as declared: all zero
ZeroFrame ==
    [orgQ |-> Null, orgErr |-> NilErr, orgNotFound |-> FALSE,
     userQ |-> Null, userErr |-> NilErr, userNotFound |-> FALSE,
     ownerQ |-> ZeroOwnerQ, ownerErr |-> NilErr, ownerID |-> NilID,
     input |-> ZeroInput, m |-> ZeroProjectV2, mErr |-> NilErr]

NoInvocation ==
    [op |-> "none", pc |-> "idle", login |-> "", result |-> NoResult, calls |-> <<>>]

\* mutant: the variables of every call are one package-level set
FrameOf_Shared(p) == 1

\* each call has its own local variables
FrameOf(p) == p

Frame(p) == procs.frames[FrameOf(p)]
World(p) == procs.remote[procs.inv[p].login]
ConcInput(login) == [Owner |-> login, Title |-> "Project", Description |-> ""]

Sequential == <<op, pc, args, env, remote, resolverLocals, createLocals, trace, result,
                getenv, cls, tool>>

\* the step of invocation p: its record and its frame change
Step(p, i, f) ==
    /\ procs' = [procs EXCEPT !.inv[p] = i, !.frames[FrameOf(p)] = f]
    /\ UNCHANGED Sequential

Finish(p, val, err) ==
    [procs.inv[p] EXCEPT !.pc = "done", !.result = [val |-> val, err |-> err]]

\* CreateProject as a function of what the remote holds for the owner
CreateProjectOf(w) ==
    LET resp == OwnerQueryResponse(w)
        o == OwnerIDOf(resp) IN
    IF resp.err # NilErr
    THEN [val |-> Null, err |-> Errorf("owner lookup failed: ", resp.err)]
    ELSE IF ~o.found THEN [val |-> Null, err |-> NewError("owner not found")]
    ELSE IF w.create.err # NilErr
    THEN [val |-> Null, err |-> Errorf("github graphql error: ", w.create.err)]
    ELSE [val |-> Ref(ProjectOf(w.create.project)), err |-> NilErr]

\* an invocation is entered: its variables are declared, its first call issued
ConcCall(p, name, login) ==
    /\ procs.inv[p].pc = "idle"
    /\ Step(p,
            [op |-> name, login |-> login, result |-> NoResult,
             pc |-> IF name = "resolveOwnerID" THEN "orgQuery" ELSE "ownerQuery",
             calls |-> << IF name = "resolveOwnerID"
                          THEN Call("organization", [login |-> login])
                          ELSE Call("owner", [login |-> login]) >>],
            ZeroFrame)

\* owner_resolution.go line 22: client.Query(ctx, &orgQ, ...) returns
ConcOrgDecode(p) ==
    /\ procs.inv[p].pc = "orgQuery"
    /\ Step(p, [procs.inv[p] EXCEPT !.pc = "orgDecoded"],
            [Frame(p) EXCEPT !.orgQ = World(p).org.obj, !.orgErr = World(p).org.err])

\* lines 23-35
ConcOrgExamine(p) ==
    /\ procs.inv[p].pc = "orgDecoded"
    /\ LET f == Frame(p)
           s == OrgLookupStep([err |-> f.orgErr, obj |-> f.orgQ]) IN
       Step(p,
            IF s.ret THEN Finish(p, s.id, s.err)
            ELSE [procs.inv[p] EXCEPT !.pc = "userQuery",
                     !.calls = Append(@, Call("user", [login |-> procs.inv[p].login]))],
            [f EXCEPT !.orgNotFound = s.orgNotFound])

\* line 35: client.Query(ctx, &userQ, ...) returns
ConcUserDecode(p) ==
    /\ procs.inv[p].pc = "userQuery"
    /\ Step(p, [procs.inv[p] EXCEPT !.pc = "userDecoded"],
            [Frame(p) EXCEPT !.userQ = World(p).user.obj, !.userErr = World(p).user.err])

\* lines 36-47
ConcUserExamine(p) ==
    /\ procs.inv[p].pc = "userDecoded"
    /\ LET f == Frame(p)
           s == UserLookupStep(f.orgNotFound, [err |-> f.userErr, obj |-> f.userQ]) IN
       Step(p, Finish(p, s.id, s.err),
            [f EXCEPT !.userNotFound = f.userErr # NilErr /\ isGraphQLNotFound(f.userErr)])

\* CONTINUITY.md line 415: client.Query(ctx, &ownerQ, ownerVars) returns
ConcOwnerDecode(p) ==
    /\ procs.inv[p].pc = "ownerQuery"
    /\ LET resp == OwnerQueryResponse(World(p)) IN
       Step(p, [procs.inv[p] EXCEPT !.pc = "ownerDecoded"],
            [Frame(p) EXCEPT !.ownerQ = [Organization |-> resp.Organization,
                                         User |-> resp.User],
                             !.ownerErr = resp.err])

\* lines 415-450
ConcOwnerExamine(p) ==
    /\ procs.inv[p].pc = "ownerDecoded"
    /\ LET f == Frame(p)
           o == OwnerIDOf(f.ownerQ)
           in == CreateProjectInputOf(o.id, ConcInput(procs.inv[p].login)) IN
       IF f.ownerErr # NilErr
       THEN Step(p, Finish(p, Null, Errorf("owner lookup failed: ", f.ownerErr)), f)
       ELSE IF ~o.found
       THEN Step(p, Finish(p, Null, NewError("owner not found")), f)
       ELSE Step(p, [procs.inv[p] EXCEPT !.pc = "mutate",
                        !.calls = Append(@, Call("createProjectV2", in))],
                 [f EXCEPT !.ownerID = o.id, !.input = in])

\* line 450: client.Mutate(ctx, &m, input, nil) returns
ConcMutateDecode(p) ==
    /\ procs.inv[p].pc = "mutate"
    /\ Step(p, [procs.inv[p] EXCEPT !.pc = "mutateDecoded"],
            [Frame(p) EXCEPT !.m = World(p).create.project, !.mErr = World(p).create.err])

\* lines 450-460
ConcMutateExamine(p) ==
    /\ procs.inv[p].pc = "mutateDecoded"
    /\ LET f == Frame(p) IN
       Step(p,
            IF f.mErr # NilErr
            THEN Finish(p, Null, Errorf("github graphql error: ", f.mErr))
            ELSE Finish(p, Ref(ProjectOf(f.m)), NilErr),
            f)

InitConcurrent ==
    /\ Idle /\ cls = NoCase /\ tool = NoTool
    /\ procs \in [remote : [ConcLogins -> ConcWorlds],
                  inv : {[p \in Procs |-> NoInvocation]},
                  frames : {[p \in Procs |-> ZeroFrame]}]

NextConcurrent ==
    \E p \in Procs :
        \/ \E name \in {"resolveOwnerID", "CreateProject"}, login \in ConcLogins :
              ConcCall(p, name, login)
        \/ ConcOrgDecode(p)
        \/ ConcOrgExamine(p)
        \/ ConcUserDecode(p)
        \/ ConcUserExamine(p)
        \/ ConcOwnerDecode(p)
        \/ ConcOwnerExamine(p)
        \/ ConcMutateDecode(p)
        \/ ConcMutateExamine(p)

SpecConcurrent == InitConcurrent /\ [][NextConcurrent]_vars

(***************************************************************************)
(* Vocabulary of the properties.  The classes of the remote's errors are   *)
(* written out here, independently of the classifier.                      *)
(***************************************************************************)
NotFoundErrs ==
    { NewError("non-200 OK status code: 404"),
      NewError("could not resolve to an Organization"),
      NewError("could not resolve to a User") }
FatalErrs ==
    { NewError("fatal org error"), NewError("fatal user error"),
      NewError("context canceled") }

\* the text s begins with prefix
HasPrefix(s, prefix) ==
    Len(s) >= Len(prefix) /\ SubSeq(s, 1, Len(prefix)) = prefix

Resolving == op = "resolveOwnerID"
Resolved == op = "resolveOwnerID" /\ pc = "done"

\* the lookup returned an object / returned no object without failing Fatal
Yields(resp) == resp.obj # Null /\ resp.err \notin FatalErrs
YieldsNothing(resp) == resp.obj = Null /\ resp.err \notin FatalErrs

Issued(kind) == \E i \in 1..Len(trace) : trace[i].ev = "call" /\ trace[i].kind = kind
Returned(kind) == \E i \in 1..Len(trace) : trace[i].ev = "ret" /\ trace[i].kind = kind

\* C1: when the organization lookup yields an organization object,
\* resolveOwnerID returns that organization's identifier and no error,
\* whatever the user lookup would answer; it never returns the user's
\* identifier then.
C1_OrgPreferred ==
    (Resolved /\ Yields(remote.org)) =>
        /\ result.err = NilErr
        /\ result.val = Deref(remote.org.obj).ID
        /\ result.val \notin UserIds

C1_Witness ==
    /\ Resolved /\ Yields(remote.org) /\ remote.user.obj # Null
    /\ result.val \in OrgIds

\* C2: the organization lookup is the first call, it has returned before a
\* user lookup is issued, and no user lookup is issued when the organization
\* lookup yields an organization object.
C2_OrgLookupFirst ==
    Resolving =>
        /\ pc # "idle" => (trace[1].ev = "call" /\ trace[1].kind = "organization")
        /\ \A i \in 1..Len(trace) :
              (trace[i].ev = "call" /\ trace[i].kind = "user") =>
                  /\ \E j \in 1..(i - 1) : trace[j] = Ret("organization")
                  /\ \E j \in 1..(i - 1) :
                        trace[j].ev = "call" /\ trace[j].kind = "organization"
        /\ Yields(remote.org) => ~Issued("user")

C2_Witness ==
    /\ Resolved /\ Yields(remote.org) /\ remote.user.obj # Null
    /\ trace = << Call("organization", [login |-> args.owner]), Ret("organization") >>

\* C3: when the organization lookup is classified NotFound and the user
\* lookup succeeds with a user object, resolveOwnerID returns the user's
\* identifier and no error.
C3_UserAfterOrgNotFound ==
    (Resolved /\ remote.org.err \in NotFoundErrs
              /\ remote.user.err = NilErr /\ remote.user.obj # Null) =>
        /\ result.err = NilErr
        /\ result.val = Deref(remote.user.obj).ID

C3_Witness ==
    /\ Resolved /\ remote.org.err \in NotFoundErrs
    /\ remote.user.err = NilErr /\ remote.user.obj # Null
    /\ result.val \in UserIds

\* C4: when neither lookup yields an object and neither fails Fatal (a
\* NotFound error or a null object, in any combination), resolveOwnerID
\* returns the error "owner not found" and an empty identifier.
C4_OwnerNotFound ==
    (Resolved /\ YieldsNothing(remote.org) /\ YieldsNothing(remote.user)) =>
        /\ result.err = NewError("owner not found")
        /\ result.val = ID("")

\* one lookup answered null without error, the other a NotFound error
C4_Witness ==
    /\ Resolved /\ remote.org.err = NilErr /\ remote.org.obj = Null
    /\ remote.user.err \in NotFoundErrs
    /\ result.err = NewError("owner not found")

\* C5: when the organization lookup fails with an error that is not
\* classified NotFound, resolveOwnerID fails with an error that begins
\* "organization lookup failed" and wraps the cause, returns no identifier,
\* and issues no user lookup, even when a user with the login exists.
C5_OrgFatal ==
    (Resolving /\ remote.org.err \in FatalErrs) =>
        /\ ~Issued("user")
        /\ pc = "done" =>
              /\ result.err # NilErr
              /\ HasPrefix(ErrorMsg(result.err), "organization lookup failed")
              /\ Unwrap(result.err) = remote.org.err
              /\ result.val = ID("")

C5_Witness ==
    /\ Resolved /\ remote.org.err \in FatalErrs /\ remote.user.obj # Null
    /\ result.err # NilErr

\* C6: when the organization lookup is classified NotFound and the user
\* lookup fails with an error that is not classified NotFound,
\* resolveOwnerID fails with an error that begins "user lookup failed" and
\* wraps the cause, and does not report "owner not found".
C6_UserFatal ==
    (Resolved /\ remote.org.err \in NotFoundErrs /\ remote.user.err \in FatalErrs) =>
        /\ result.err # NilErr
        /\ HasPrefix(ErrorMsg(result.err), "user lookup failed")
        /\ Unwrap(result.err) = remote.user.err
        /\ ~Contains(ErrorMsg(result.err), "owner not found")
        /\ result.val = ID("")

C6_Witness ==
    /\ Resolved /\ remote.org.err \in NotFoundErrs /\ remote.user.err \in FatalErrs
    /\ Returned("user")

Creating == op = "CreateProject"
MutationIssued == Issued("createProjectV2")

\* C7: CreateProject resolves its owner as resolveOwnerID does: once its
\* owner lookup has returned, it has issued the create mutation, with the
\* identifier resolveOwnerID returns for the login, when resolveOwnerID
\* succeeds, and has failed without a mutation when resolveOwnerID fails.
C7_CreateResolvesAsResolver ==
    (Creating /\ Returned("owner")) =>
        LET r == resolveOwnerID(remote) IN
        IF r.err = NilErr
        THEN MutationIssued /\ input.OwnerID = r.id
        ELSE ~MutationIssued /\ pc = "done" /\ result.err # NilErr

\* C8: when CreateProject is called with owner and title and the owner
\* resolves to neither an organization nor a user, it returns a nil project
\* and an error containing "owner not found", and issues no create mutation.
C8_CreateOwnerNotFound ==
    (Creating /\ Returned("owner")
              /\ YieldsNothing(remote.org) /\ YieldsNothing(remote.user)) =>
        /\ ~MutationIssued
        /\ pc = "done"
        /\ result.val = Null
        /\ result.err # NilErr
        /\ Contains(ErrorMsg(result.err), "owner not found")

\* C9: when CreateProject issues the create mutation, its owner lookup was
\* issued and has returned without error before, the mutation carries the
\* identifier of the organization the lookup returned, or else of the user,
\* and the title of the input; when the mutation succeeds the Project
\* returned is the one of the mutation response.
C9_MutationAfterLookup ==
    Creating =>
        /\ \A i \in 1..Len(trace) :
              (trace[i].ev = "call" /\ trace[i].kind = "createProjectV2") =>
                  /\ i = 3
                  /\ trace[1] = Call("owner", [login |-> args.in.Owner])
                  /\ trace[2] = Ret("owner")
                  /\ remote.org.err = NilErr /\ remote.user.err = NilErr
                  /\ trace[i].vars.OwnerID =
                        IF remote.org.obj # Null THEN Deref(remote.org.obj).ID
                        ELSE Deref(remote.user.obj).ID
                  /\ trace[i].vars.Title = args.in.Title
        /\ (pc = "done" /\ result.err = NilErr) =>
              LET p == remote.create.project
                  r == Deref(result.val) IN
              /\ MutationIssued /\ remote.create.err = NilErr
              /\ p.ID # NilID => ID(r.ID) = p.ID
              /\ r.Number = p.Number
              /\ r.Title = p.Title
              /\ r.URL = Deref(p.URL).Scheme \o "://" \o Deref(p.URL).Host
                            \o Deref(p.URL).Path

\* the owner is a user, and the project the mutation reports is returned
C9_Witness ==
    /\ Creating /\ pc = "done" /\ result.err = NilErr
    /\ remote.org.obj = Null /\ remote.user.obj # Null
    /\ input.OwnerID \in UserIds
    /\ Deref(result.val).ID = "proj1"

\* C10: the classifier answers NotFound exactly for a non-nil error whose
\* message contains one of the four phrases; any other error, one with an
\* empty message included, is Fatal, and a nil error is not NotFound.
C10_Classifier ==
    cls.res # "unset" =>
        /\ (cls.res = "true") <=>
              /\ cls.err # NilErr
              /\ \E ph \in NotFoundPhrases : Contains(ErrorMsg(cls.err), ph)
        /\ (cls.res = "true") <=> cls.expect
        /\ cls.err = NilErr => cls.res = "false"
        /\ cls.err = NewError("") => cls.res = "false"

\* an error that wraps the 400 phrase in other text was classified NotFound
C10_Witness ==
    /\ cls.res = "true"
    /\ cls.err = NewError("organization lookup failed: "
                          \o "non-200 OK status code: 400"
                          \o " with the login of 'testowner'.")

(***************************************************************************)
(* Properties of the seven public operations.                              *)
(***************************************************************************)
Invoked(name) == op = name /\ pc # "idle"
Succeeded == pc = "done" /\ result.err = NilErr
Failed == pc = "done" /\ result.err # NilErr /\ result.val = Null
Calls == SelectSeq(trace, LAMBDA e : e.ev = "call")

\* a required input of the invoked operation is missing
MissingRequired ==
    \/ op = "ListOrganizationProjects" /\ args.in.Organization = ""
    \/ op = "ListUserProjects" /\ args.in.User = ""
    \/ op = "GetProject" /\ (args.in.Owner = "" \/ args.in.Number = 0)
    \/ op = "GetProjectItems" /\ args.in.ProjectID = ""
    \/ op = "CreateProject" /\ (args.in.Owner = "" \/ args.in.Title = "")
    \/ op = "AddProjectItem" /\ (args.in.ProjectID = "" \/ args.in.ContentID = "")
    \/ op = "UpdateProjectItemField"
          /\ (args.in.ItemID = "" \/ args.in.FieldID = "" \/ args.in.Value = "")

\* C11: an operation invoked with a required input missing has returned an
\* error and a nil result, and has issued no network call.
C11_MissingInputRejected ==
    (pc # "idle" /\ MissingRequired) => (Failed /\ trace = <<>>)

C11_Witness ==
    /\ Invoked("GetProject") /\ args.in.Owner = "test-owner" /\ args.in.Number = 0
    /\ args.client # Null /\ remote.err = NilErr
    /\ Failed /\ result.err = NewError("owner and number are required")
    /\ trace = <<>>

\* the operation got past validation and client configuration
Configured == ~(args.client = Null /\ env = "")
HasProject(root) == root # Null /\ Deref(root).ProjectV2 # Null
ProjectAt(root) == Deref(Deref(root).ProjectV2)

\* the result is the Project of the remote's project p, and no error
ReturnsProject(p) ==
    /\ result.err = NilErr /\ result.val # Null
    /\ Deref(result.val).ID = Sprint(p.ID)
    /\ Deref(result.val).Number = p.Number
    /\ Deref(result.val).Title = p.Title
    /\ p.URL # Null
    /\ Deref(result.val).URL = URLString(p.URL)

\* C12: GetProject with owner and number given issues one query, for both
\* roots; once it has returned, the result is the organization root's
\* project if that root holds one (also when the user root holds one too),
\* otherwise the user root's project if that root holds one, otherwise the
\* error "project not found" with a nil result.
C12_GetProjectSelection ==
    (Invoked("GetProject") /\ ~MissingRequired /\ Configured) =>
        /\ Calls = << Call("projectV2",
                           [owner |-> args.in.Owner, number |-> args.in.Number]) >>
        /\ pc = "done" =>
              IF HasProject(remote.Organization)
              THEN ReturnsProject(ProjectAt(remote.Organization))
              ELSE IF HasProject(remote.User)
              THEN ReturnsProject(ProjectAt(remote.User))
              ELSE result = [val |-> Null, err |-> NewError("project not found")]

GotItems == Invoked("GetProjectItems") /\ ~MissingRequired /\ Configured
                /\ Returned("node.items") /\ remote.err = NilErr
\* the items of the returned page, as a sequence
PageItems == Elems(Deref(result.val).Items)
AbsentContent(c) == c = ZeroContent
UnrecognizedContent(c) == c.Typename \notin {"", "Issue", "PullRequest"}
ResolvedContent(c) == c.Typename \in {"Issue", "PullRequest"} /\ c.URL # Null

\* C13: GetProjectItems does not fail because of an item's content: once
\* the query has returned without error the page is returned, and an item
\* whose content is absent or of an unrecognized type is in it with empty
\* content identifier, title, state and URL.
C13_ContentNeverFails ==
    GotItems =>
        /\ Succeeded
        /\ Len(PageItems) = Len(remote.q.Nodes)
        /\ \A i \in 1..Len(remote.q.Nodes) :
              (AbsentContent(remote.q.Nodes[i].Content)
                   \/ UnrecognizedContent(remote.q.Nodes[i].Content)) =>
                 /\ PageItems[i].ID = Sprint(remote.q.Nodes[i].ID)
                 /\ PageItems[i].ContentID = ""
                 /\ PageItems[i].Title = ""
                 /\ PageItems[i].State = ""
                 /\ PageItems[i].URL = ""

\* C14: in a page GetProjectItems returns, the item of every node whose
\* content resolved carries the node's identifier and the content's
\* identifier, type, title, state and URL.
C14_ResolvedContentMapped ==
    (GotItems /\ Succeeded) =>
        /\ Len(PageItems) = Len(remote.q.Nodes)
        /\ \A i \in 1..Len(remote.q.Nodes) :
              ResolvedContent(remote.q.Nodes[i].Content) =>
                 /\ PageItems[i].ID = Sprint(remote.q.Nodes[i].ID)
                 /\ PageItems[i].ContentID = Sprint(remote.q.Nodes[i].Content.ID)
                 /\ PageItems[i].ContentType = remote.q.Nodes[i].Content.Typename
                 /\ PageItems[i].Title = remote.q.Nodes[i].Content.Title
                 /\ PageItems[i].State = remote.q.Nodes[i].Content.State
                 /\ PageItems[i].URL = URLString(remote.q.Nodes[i].Content.URL)

PageOps == {"ListOrganizationProjects", "ListUserProjects", "GetProjectItems"}
\* the slice of the returned page
PageSlice ==
    IF op = "GetProjectItems" THEN Deref(result.val).Items
    ELSE Deref(result.val).Projects
PageReturned == op \in PageOps /\ pc # "idle" /\ Succeeded

\* C15 (as stated): every page returned by ListOrganizationProjects,
\* ListUserProjects or GetProjectItems has a non-nil sequence; when the
\* remote result set is empty the sequence is empty, of length 0, not nil,
\* and has_next_page is false.
C15_EmptySetNoNextPage ==
    PageReturned =>
        /\ result.val # Null
        /\ PageSlice # NilSlice
        /\ remote.set = <<>> =>
              /\ PageSlice = MakeSlice(<<>>)
              /\ Len(Elems(PageSlice)) = 0
              /\ Deref(result.val).HasNextPage = FALSE

\* C15 (amended): every page returned by ListOrganizationProjects,
\* ListUserProjects or GetProjectItems has a non-nil sequence; when the
\* response holds no node, as it does when the remote result set is empty,
\* the sequence is empty, of length 0, not nil, and has_next_page is the
\* response's hasNextPage, false only when the response says so.
C15_PageNeverNil ==
    PageReturned =>
        /\ result.val # Null
        /\ PageSlice # NilSlice
        /\ (remote.set = <<>> \/ remote.q.Nodes = <<>>) =>
              /\ PageSlice = MakeSlice(<<>>)
              /\ Len(Elems(PageSlice)) = 0
              /\ Deref(result.val).HasNextPage = remote.q.PageInfo.HasNextPage

C15_Witness ==
    /\ PageReturned /\ op = "ListOrganizationProjects" /\ remote.set = <<>>
    /\ PageSlice = MakeSlice(<<>>)
    /\ remote.q.PageInfo.HasNextPage = TRUE
    /\ Deref(result.val).HasNextPage = TRUE

\* C16: the returned page has one entry per node of the remote response, the
\* i-th entry made from the i-th node, and the response's endCursor and
\* hasNextPage.
C16_PageMirrorsRemote ==
    PageReturned =>
        /\ Len(Elems(PageSlice)) = Len(remote.q.Nodes)
        /\ \A i \in 1..Len(remote.q.Nodes) :
              /\ Elems(PageSlice)[i].ID = Sprint(remote.q.Nodes[i].ID)
              /\ op # "GetProjectItems" =>
                    /\ Elems(PageSlice)[i].Number = remote.q.Nodes[i].Number
                    /\ Elems(PageSlice)[i].Title = remote.q.Nodes[i].Title
              /\ op = "GetProjectItems" =>
                    Elems(PageSlice)[i].Title = remote.q.Nodes[i].Content.Title
        /\ Deref(result.val).EndCursor = remote.q.PageInfo.EndCursor
        /\ Deref(result.val).HasNextPage = remote.q.PageInfo.HasNextPage

C16_Witness ==
    /\ PageReturned /\ op = "ListUserProjects" /\ args.in.First = 0
    /\ Len(remote.q.Nodes) = 2 /\ remote.q.Nodes[1] # remote.q.Nodes[2]
    /\ Elems(PageSlice)[1].ID = "1" /\ Elems(PageSlice)[2].ID = "2"
    /\ Deref(result.val).EndCursor = "abc"
    /\ Deref(result.val).HasNextPage = FALSE

\* an item of which only the identifier is set
OnlyID(item, id) ==
    item = [ID |-> Sprint(id), ContentID |-> "", ContentType |-> "", Title |-> "",
            State |-> "", URL |-> ""]

\* C17: AddProjectItem with projectID and contentID given issues one
\* mutation call; when it succeeds with the content absent from the
\* response, the result is no error and an item with the response's
\* identifier and every content field empty.
C17_AddItemAbsentContent ==
    (Invoked("AddProjectItem") /\ ~MissingRequired /\ Configured) =>
        /\ Calls = << Call("addProjectV2ItemById",
                           [ProjectID |-> ID(args.in.ProjectID),
                            ContentID |-> ID(args.in.ContentID)]) >>
        /\ (Returned("addProjectV2ItemById") /\ remote.err = NilErr
                /\ remote.item.Content = Null) =>
              /\ Succeeded
              /\ result.val # Null
              /\ OnlyID(Deref(result.val).Item, remote.item.ID)

C17_Witness ==
    /\ Invoked("AddProjectItem") /\ Returned("addProjectV2ItemById")
    /\ remote.err = NilErr /\ remote.item.Content = Null
    /\ Succeeded /\ Deref(result.val).Item.ID = "item1"
    /\ Deref(result.val).Item.ContentID = ""

\* C18: UpdateProjectItemField with itemID, fieldID and value given issues
\* the mutation whatever the projectID, the empty one included, and on
\* success returns an item with only the response's identifier set.
C18_UpdateWithoutProject ==
    (Invoked("UpdateProjectItemField") /\ args.in.ItemID # "" /\ args.in.FieldID # ""
         /\ args.in.Value # "" /\ Configured) =>
        /\ Calls = << Call("updateProjectV2ItemFieldValue",
                           [ProjectID |-> ID(args.in.ProjectID),
                            ItemID |-> ID(args.in.ItemID),
                            FieldID |-> ID(args.in.FieldID),
                            Value |-> args.in.Value]) >>
        /\ (pc = "done" /\ remote.err = NilErr) =>
              /\ Succeeded
              /\ result.val # Null
              /\ OnlyID(Deref(result.val).Item, remote.ID)

C18_Witness ==
    /\ Invoked("UpdateProjectItemField") /\ args.in.ProjectID = ""
    /\ Succeeded /\ Len(trace) = 2
    /\ Deref(result.val).Item.ID = "item1"

MutationOps == {"CreateProject", "AddProjectItem", "UpdateProjectItemField"}
MutationKinds ==
    {"createProjectV2", "addProjectV2ItemById", "updateProjectV2ItemFieldValue"}
MutationCalls ==
    SelectSeq(trace, LAMBDA e : e.ev = "call" /\ e.kind \in MutationKinds)
MutationReturned == \E k \in MutationKinds : Returned(k)
\* the error the remote answers the mutation with
MutationErr == IF op = "CreateProject" THEN remote.create.err ELSE remote.err

\* C19: an invocation of CreateProject, AddProjectItem or
\* UpdateProjectItemField issues its mutation at most once; when the
\* mutation call fails, the operation has returned an error wrapping the
\* failure and a nil result, with no call after the failed one.
C19_NoMutationRetry ==
    (op \in MutationOps /\ pc # "idle") =>
        /\ Len(MutationCalls) <= 1
        /\ (MutationReturned /\ MutationErr # NilErr) =>
              /\ Failed
              /\ Unwrap(result.err) = MutationErr
              /\ trace[Len(trace)].ev = "ret"

C19_Witness ==
    /\ Invoked("AddProjectItem") /\ MutationReturned
    /\ remote.err = NewError("non-200 OK status code: 500")
    /\ Failed /\ Len(MutationCalls) = 1 /\ Len(trace) = 2

Cancelled == NewError("context canceled")

\* C20: when a lookup of resolveOwnerID or the owner query of CreateProject
\* returns the cancellation error, the operation has failed with that error
\* as the cause and no later call is issued: no user lookup after a
\* cancelled organization lookup, no call after a cancelled user lookup, no
\* create mutation after a cancelled owner query.
C20_CancelStopsCalls ==
    /\ (Resolving /\ Returned("organization") /\ remote.org.err = Cancelled) =>
          /\ pc = "done" /\ result.err # NilErr
          /\ Unwrap(result.err) = Cancelled
          /\ ~Issued("user")
          /\ Len(trace) = 2
    /\ (Resolving /\ Returned("user") /\ remote.user.err = Cancelled) =>
          /\ pc = "done" /\ result.err # NilErr
          /\ Unwrap(result.err) = Cancelled
          /\ Len(trace) = 4
    /\ (Creating /\ Returned("owner") /\ OwnerQueryResponse(remote).err = Cancelled) =>
          /\ Failed
          /\ Unwrap(result.err) = Cancelled
          /\ ~MutationIssued
          /\ Len(trace) = 2

C20_Witness ==
    /\ Resolved /\ Returned("organization") /\ remote.org.err = Cancelled
    /\ remote.user.obj # Null
    /\ result.err = Errorf("organization lookup failed: ", Cancelled)
    /\ ~Issued("user")

PublicOps ==
    {"ListOrganizationProjects", "ListUserProjects", "GetProject", "GetProjectItems",
     "CreateProject", "AddProjectItem", "UpdateProjectItemField"}
TokenNotSet == NewError("GITHUB_PERSONAL_ACCESS_TOKEN not set")

\* C21: a public operation invoked with valid input, no client and an empty
\* token variable has failed with the error that the token is not set and a
\* nil result, and has issued no network call.
C21_TokenNotSet ==
    (op \in PublicOps /\ pc # "idle" /\ ~MissingRequired
         /\ args.client = Null /\ env = "") =>
        /\ Failed
        /\ result.err = TokenNotSet
        /\ trace = <<>>

C21_Witness ==
    /\ Invoked("ListOrganizationProjects") /\ ~MissingRequired
    /\ args.client = Null /\ env = "" /\ remote.err = NilErr
    /\ Failed /\ result.err = TokenNotSet /\ trace = <<>>

\* the invocation got past validation and configuration
Passed ==
    /\ op # "none" /\ pc # "idle"
    /\ op \in PublicOps => (~MissingRequired /\ Configured)
\* the calls issued and not yet returned after the first k events
InFlight(k) ==
    Len(SelectSeq(SubSeq(trace, 1, k), LAMBDA e : e.ev = "call"))
      - Len(SelectSeq(SubSeq(trace, 1, k), LAMBDA e : e.ev = "ret"))

\* C22: an invocation that got past validation and configuration issues
\* between one and three network calls, has at most one of them in flight
\* at any time, and has returned a result or an error once every call it
\* issued has returned.
C22_BoundedCallsThenReturn ==
    Passed =>
        /\ Len(Calls) >= 1 /\ Len(Calls) <= 3
        /\ \A k \in 0..Len(trace) : InFlight(k) \in {0, 1}
        /\ InFlight(Len(trace)) = 0 =>
              /\ pc = "done"
              /\ result.err # NilErr \/ result.val # Null

\* C24: a public operation invoked with invalid input, no client and no
\* token has returned its validation error, not the error that the token is
\* not set, and has not read the token.
C24_ValidationBeforeConfiguration ==
    (op \in PublicOps /\ pc # "idle" /\ MissingRequired
         /\ args.client = Null /\ env = "") =>
        /\ Failed
        /\ result.err # TokenNotSet
        /\ \E i \in 1..Len(ErrorMsg(result.err)) :
              SubSeq(ErrorMsg(result.err), i, Len(ErrorMsg(result.err))) \in
                  {"is required", "are required"}
        /\ getenv = 0
        /\ trace = <<>>

C24_Witness ==
    /\ Invoked("UpdateProjectItemField") /\ args.in.Value = "" /\ args.in.ItemID # ""
    /\ args.client = Null /\ env = ""
    /\ result.err = NewError("itemID, fieldID, and value are required")
    /\ getenv = 0

\* the required parameters of the request that cannot be read, by position
MissingAt ==
    { i \in 1..Len(RequiredParams(tool.name)) :
          RequiredParams(tool.name)[i] \in tool.req.missing }
FirstMissing == RequiredParams(tool.name)[CHOOSE i \in MissingAt : \A j \in MissingAt : i <= j]

\* C25: a tool handler invokes its operation at most once, and only with
\* getClient succeeded and every required parameter read; when getClient
\* fails it returns that error, else when a required parameter cannot be
\* read it returns the error of the first such parameter, in both cases
\* without invoking the operation, so without a network call.
C25_HandlerOrder ==
    tool.pc # "idle" =>
        /\ tool.invoked <= 1
        /\ tool.invoked = 1 =>
              /\ tool.req.factory = NilErr
              /\ MissingAt = {}
              /\ tool.read = RequiredParams(tool.name)
        /\ (tool.pc = "done" /\ tool.req.factory # NilErr) =>
              /\ tool.ret = "error" /\ tool.err = tool.req.factory
              /\ tool.read = <<>>
              /\ tool.invoked = 0 /\ tool.calls = 0
        /\ (tool.pc = "done" /\ tool.req.factory = NilErr /\ MissingAt # {}) =>
              /\ tool.ret = "error" /\ tool.err = ParamError(FirstMissing)
              /\ tool.invoked = 0 /\ tool.calls = 0
        /\ (tool.req.factory = NilErr /\ MissingAt = {}
                /\ tool.pc \in {"operation", "done"}) => tool.invoked = 1

C25_Witness ==
    /\ tool.name = "update_project_item_field" /\ tool.pc = "done"
    /\ tool.req.factory = NilErr
    /\ tool.req.missing = {"field_id", "value"}
    /\ tool.read = << "project_id", "item_id" >>
    /\ tool.err = ParamError("field_id")
    /\ tool.invoked = 0

\* what invocation p returns when it runs alone against the same remote
Alone(p) ==
    IF procs.inv[p].op = "resolveOwnerID"
    THEN [val |-> resolveOwnerID(World(p)).id, err |-> resolveOwnerID(World(p)).err]
    ELSE CreateProjectOf(World(p))
\* the variables invocation p has decoded hold the remote's answers to p
OwnAnswers(p) ==
    LET i == procs.inv[p]
        f == procs.frames[p] IN
    /\ i.pc \in {"orgDecoded", "userQuery", "userDecoded"} =>
          (f.orgQ = World(p).org.obj /\ f.orgErr = World(p).org.err)
    /\ i.pc = "userDecoded" =>
          (f.userQ = World(p).user.obj /\ f.userErr = World(p).user.err)
    /\ i.pc \in {"ownerDecoded", "mutate", "mutateDecoded"} =>
          /\ f.ownerQ.Organization = World(p).org.obj
          /\ f.ownerQ.User = World(p).user.obj
    /\ i.pc = "mutateDecoded" => f.m = World(p).create.project
    /\ i.pc = "idle" => f = ZeroFrame

\* C23: with two invocations running concurrently on one client, under
\* every interleaving of their steps each invocation returns what it
\* returns running alone against the same remote answers, and the
\* variables of an invocation hold only the answers to its own calls.
C23_ConcurrentAsAlone ==
    \A p \in Procs :
        /\ procs.inv[p].pc = "done" => procs.inv[p].result = Alone(p)
        /\ OwnAnswers(p)

\* both invocations were in flight at once, for different logins with
\* different answers, and both have returned
C23_Witness ==
    /\ procs.inv[1].pc = "done" /\ procs.inv[2].pc = "done"
    /\ procs.inv[1].op = "CreateProject" /\ procs.inv[2].op = "CreateProject"
    /\ procs.inv[1].login # procs.inv[2].login
    /\ procs.inv[1].result.err = NilErr /\ procs.inv[2].result.err = NilErr
    /\ procs.inv[1].result # procs.inv[2].result
    /\ procs.frames[1].m # procs.frames[2].m

====
